---- MODULE Spec2Model ----
(***************************************************************************)
(* Model of the pattern API sketch (src/src/v5.rs): the SearchPtrs         *)
(* haystack contract, the single-byte Ascii pattern and its searcher for   *)
(* the immutable string haystack (&str) and the mutable byte-slice         *)
(* haystack (&mut [u8]), and the two reference consumers match_indices     *)
(* and split; and of the single-byte searchers of the earlier sketches     *)
(* src/src/v2.rs, src/src/v3.rs and src/src/v4.rs.                         *)
(*                                                                         *)
(* Pointers are modelled as natural-number addresses.  A haystack of n     *)
(* bytes placed at address base occupies base .. base+n-1; a slice value   *)
(* (&str, &mut [u8]) is the fat pointer [ptr, len].                        *)
(***************************************************************************)
EXTENDS Integers, Sequences, FiniteSets, TLC

VARIABLES version, kind, base, haystack, original, ascii, call, result, searcher,
          hist, fill

vars == <<version, kind, base, haystack, original, ascii, call, result, searcher,
          hist, fill>>

\* ------------------------------------------------------------------ bounds

\* Longest haystack explored.
MaxLen == 4

\* Most next_match / next_reject calls made on one searcher.
MaxCalls == 6

\* Addresses at which the haystack may be placed: 1 .. MaxBase (never null).
MaxBase == 2

\* Width of usize in the model (the source's is the platform's pointer width).
UsizeBits == 8

UsizeModulus == 2 ^ UsizeBits

\* The bytes haystacks and patterns are drawn from: 'a', 'b', 'n'.
Bytes == {97, 98, 110}

Haystacks == UNION {[1..n -> Bytes] : n \in 0..MaxLen}

Kinds == {"str", "slice"}

\* ------------------------------------------------------------------ values

None == [tag |-> "None"]

Some(x) == [tag |-> "Some", val |-> x]

is_some(o) == o.tag = "Some"

NoSearcher == [tag |-> "NoSearcher"]

\* How a call that may panic ends.
Ok(x) == [tag |-> "Ok", val |-> x]

Panic == [tag |-> "Panic"]

\* a - b on usize: an overflow panics in a build with overflow checks and
\* wraps around in a build without them.
usize_sub(a, b, overflow_checks) ==
    IF a - b < 0 /\ overflow_checks THEN Panic ELSE Ok((a - b) % UsizeModulus)

\* The caller's haystack value: the slice covering the whole buffer.
Hay == [ptr |-> base, len |-> Len(haystack)]

\* *p for an address inside the buffer.
Deref(p) == haystack[p - base + 1]

\* <[u8]>::get(index)
slice_get(s, index) == IF index < s.len THEN Some(Deref(s.ptr + index)) ELSE None

\* The bytes a slice value views.
ViewBytes(v) == [i \in 1..v.len |-> Deref(v.ptr + i - 1)]

\* The addresses a slice value covers.
Covered(v) == v.ptr..(v.ptr + v.len - 1)

\* ------------------------------------------------------------------ string

\* Mutant: the cursor's address is returned, not its distance from the start.
str_offset_from_start_absolute(hs, begin) == begin

str_offset_from_start(hs, begin) == begin - hs[1]

str_range_to_self(hs, start, end) == [ptr |-> start, len |-> end - start]

str_cursor_at_front(hs) == hs[1]

str_cursor_at_back(hs) == hs[2]

str_haystack(s) == s.haystack

\* Mutant: an exhausted searcher rewinds to the front of the haystack.
RECURSIVE str_next_match_rewind(_)
str_next_match_rewind(s) ==
    IF s.start # s.end
    THEN LET p == s.start
             s1 == [s EXCEPT !.start = s.start + 1]
         IN  IF Deref(p) = s.ascii
             THEN [s |-> s1, ret |-> Some(<<p, s1.start>>)]
             ELSE str_next_match_rewind(s1)
    ELSE [s |-> [s EXCEPT !.start = s.haystack[1]], ret |-> None]

RECURSIVE str_next_match(_)
str_next_match(s) ==
    IF s.start # s.end
    THEN LET p == s.start
             s1 == [s EXCEPT !.start = s.start + 1]
         IN  IF Deref(p) = s.ascii
             THEN [s |-> s1, ret |-> Some(<<p, s1.start>>)]
             ELSE str_next_match(s1)
    ELSE [s |-> s, ret |-> None]

\* Mutant: the scan position is not advanced past a returned range.
RECURSIVE str_next_reject_no_advance(_)
str_next_reject_no_advance(s) ==
    IF s.start # s.end
    THEN LET p == s.start
             s1 == [s EXCEPT !.start = s.start + 1]
         IN  IF Deref(p) # s.ascii
             THEN [s |-> s, ret |-> Some(<<p, s1.start>>)]
             ELSE str_next_reject_no_advance(s1)
    ELSE [s |-> s, ret |-> None]

RECURSIVE str_next_reject(_)
str_next_reject(s) ==
    IF s.start # s.end
    THEN LET p == s.start
             s1 == [s EXCEPT !.start = s.start + 1]
         IN  IF Deref(p) # s.ascii
             THEN [s |-> s1, ret |-> Some(<<p, s1.start>>)]
             ELSE str_next_reject(s1)
    ELSE [s |-> s, ret |-> None]

\* Mutant: the stored bounds end where they begin.
str_into_searcher_empty_bounds(pattern, hay) ==
    LET begin == hay.ptr
        end == hay.ptr + hay.len
    IN  [haystack |-> <<begin, begin>>, start |-> begin, end |-> end, ascii |-> pattern]

str_into_searcher(pattern, hay) ==
    LET begin == hay.ptr
        end == hay.ptr + hay.len
    IN  [haystack |-> <<begin, end>>, start |-> begin, end |-> end, ascii |-> pattern]

str_is_prefix_of(pattern, hay) ==
    LET g == slice_get(hay, 0)
    IN  IF is_some(g) THEN g.val = pattern ELSE FALSE

str_is_suffix_of(pattern, hay, overflow_checks) ==
    LET index == usize_sub(hay.len, 1, overflow_checks)
    IN  IF index.tag = "Panic"
        THEN Panic
        ELSE LET g == slice_get(hay, index.val)
             IN  Ok(IF is_some(g) THEN g.val = pattern ELSE FALSE)

\* ------------------------------------------------------------------- slice

slice_offset_from_start(hs, begin) == begin - hs[1]

\* Mutant: the end cursor is taken as inclusive.
slice_range_to_self_inclusive(hs, start, end) == [ptr |-> start, len |-> end - start + 1]

slice_range_to_self(hs, start, end) == [ptr |-> start, len |-> end - start]

slice_cursor_at_front(hs) == hs[1]

\* Mutant: the front cursor is given for the back.
slice_cursor_at_back_front(hs) == hs[1]

slice_cursor_at_back(hs) == hs[2]

slice_haystack(s) == s.haystack

\* Mutant: the comparison of next_reject (copied) in next_match.
RECURSIVE slice_next_match_inverted(_)
slice_next_match_inverted(s) ==
    IF s.start # s.end
    THEN LET p == s.start
             s1 == [s EXCEPT !.start = s.start + 1]
         IN  IF Deref(p) # s.ascii
             THEN [s |-> s1, ret |-> Some(<<p, s1.start>>)]
             ELSE slice_next_match_inverted(s1)
    ELSE [s |-> s, ret |-> None]

\* Mutant: a call that finds no match leaves the scan position where it was.
slice_next_match_keep_on_none(s) ==
    LET hits == {p \in s.start..(s.end - 1) : Deref(p) = s.ascii}
    IN  IF hits = {}
        THEN [s |-> s, ret |-> None]
        ELSE LET p == CHOOSE h \in hits : \A g \in hits : h <= g
             IN  [s |-> [s EXCEPT !.start = p + 1], ret |-> Some(<<p, p + 1>>)]

RECURSIVE slice_next_match(_)
slice_next_match(s) ==
    IF s.start # s.end
    THEN LET p == s.start
             s1 == [s EXCEPT !.start = s.start + 1]
         IN  IF Deref(p) = s.ascii
             THEN [s |-> s1, ret |-> Some(<<p, s1.start>>)]
             ELSE slice_next_match(s1)
    ELSE [s |-> s, ret |-> None]

\* Mutant: the comparison of next_match (copied) in next_reject.
RECURSIVE slice_next_reject_not_inverted(_)
slice_next_reject_not_inverted(s) ==
    IF s.start # s.end
    THEN LET p == s.start
             s1 == [s EXCEPT !.start = s.start + 1]
         IN  IF Deref(p) = s.ascii
             THEN [s |-> s1, ret |-> Some(<<p, s1.start>>)]
             ELSE slice_next_reject_not_inverted(s1)
    ELSE [s |-> s, ret |-> None]

RECURSIVE slice_next_reject(_)
slice_next_reject(s) ==
    IF s.start # s.end
    THEN LET p == s.start
             s1 == [s EXCEPT !.start = s.start + 1]
         IN  IF Deref(p) # s.ascii
             THEN [s |-> s1, ret |-> Some(<<p, s1.start>>)]
             ELSE slice_next_reject(s1)
    ELSE [s |-> s, ret |-> None]

slice_into_searcher(pattern, hay) ==
    LET begin == hay.ptr
        end == hay.ptr + hay.len
    IN  [haystack |-> <<begin, end>>, start |-> begin, end |-> end, ascii |-> pattern]

\* Mutant: an empty haystack counts as a prefix match.
slice_is_prefix_of_default_true(pattern, hay) ==
    LET g == slice_get(hay, 0)
    IN  IF is_some(g) THEN g.val = pattern ELSE TRUE

slice_is_prefix_of(pattern, hay) ==
    LET g == slice_get(hay, 0)
    IN  IF is_some(g) THEN g.val = pattern ELSE FALSE

slice_is_suffix_of(pattern, hay, overflow_checks) ==
    LET index == usize_sub(hay.len, 1, overflow_checks)
    IN  IF index.tag = "Panic"
        THEN Panic
        ELSE LET g == slice_get(hay, index.val)
             IN  Ok(IF is_some(g) THEN g.val = pattern ELSE FALSE)

\* ------------------------------------------- dispatch on the haystack type H

offset_from_start(k, hs, begin) ==
    IF k = "str" THEN str_offset_from_start(hs, begin)
    ELSE slice_offset_from_start(hs, begin)

range_to_self(k, hs, start, end) ==
    IF k = "str" THEN str_range_to_self(hs, start, end)
    ELSE slice_range_to_self(hs, start, end)

cursor_at_front(k, hs) ==
    IF k = "str" THEN str_cursor_at_front(hs) ELSE slice_cursor_at_front(hs)

cursor_at_back(k, hs) ==
    IF k = "str" THEN str_cursor_at_back(hs) ELSE slice_cursor_at_back(hs)

searcher_haystack(k, s) ==
    IF k = "str" THEN str_haystack(s) ELSE slice_haystack(s)

next_match(k, s) ==
    IF k = "str" THEN str_next_match(s) ELSE slice_next_match(s)

next_reject(k, s) ==
    IF k = "str" THEN str_next_reject(s) ELSE slice_next_reject(s)

into_searcher(k, pattern, hay) ==
    IF k = "str" THEN str_into_searcher(pattern, hay)
    ELSE slice_into_searcher(pattern, hay)

is_prefix_of(k, pattern, hay) ==
    IF k = "str" THEN str_is_prefix_of(pattern, hay)
    ELSE slice_is_prefix_of(pattern, hay)

is_suffix_of(k, pattern, hay, overflow_checks) ==
    IF k = "str" THEN str_is_suffix_of(pattern, hay, overflow_checks)
    ELSE slice_is_suffix_of(pattern, hay, overflow_checks)

\* Mutant: the searcher is asked for a reject, not a match.
is_contained_in_reject(k, pattern, hay) ==
    is_some(next_reject(k, into_searcher(k, pattern, hay)).ret)

is_contained_in(k, pattern, hay) ==
    is_some(next_match(k, into_searcher(k, pattern, hay)).ret)

\* ------------------------------------------------------------ api_consumer

\* The while-let loop of match_indices: one iteration per match.
RECURSIVE match_indices_loop(_, _, _)
match_indices_loop(k, s, ret) ==
    LET r == next_match(k, s)
    IN  IF is_some(r.ret)
        THEN LET begin == r.ret.val[1]
                 end == r.ret.val[2]
                 hs == searcher_haystack(k, r.s)
                 offset == offset_from_start(k, hs, begin)
                 slice == range_to_self(k, hs, begin, end)
             IN  match_indices_loop(k, r.s, Append(ret, <<offset, slice>>))
        ELSE ret

match_indices(k, hay, pattern) ==
    match_indices_loop(k, into_searcher(k, pattern, hay), <<>>)

\* Mutant: a gap runs to the end of the match that closes it.
RECURSIVE split_loop_gap_to_match_end(_, _, _, _, _)
split_loop_gap_to_match_end(k, s, hs, last_end, ret) ==
    LET r == next_match(k, s)
    IN  IF is_some(r.ret)
        THEN LET begin == r.ret.val[1]
                 end == r.ret.val[2]
                 ret1 == IF is_some(last_end)
                         THEN Append(ret, range_to_self(k, hs, last_end.val, end))
                         ELSE ret
             IN  split_loop_gap_to_match_end(k, r.s, hs, Some(end), ret1)
        ELSE [last_end |-> last_end, ret |-> ret]

\* Mutant: an empty gap is not emitted.
RECURSIVE split_loop_skip_empty(_, _, _, _, _)
split_loop_skip_empty(k, s, hs, last_end, ret) ==
    LET r == next_match(k, s)
    IN  IF is_some(r.ret)
        THEN LET begin == r.ret.val[1]
                 end == r.ret.val[2]
                 ret1 == IF is_some(last_end) /\ last_end.val # begin
                         THEN Append(ret, range_to_self(k, hs, last_end.val, begin))
                         ELSE ret
             IN  split_loop_skip_empty(k, r.s, hs, Some(end), ret1)
        ELSE [last_end |-> last_end, ret |-> ret]

\* Mutant: last_end is set to the match's begin, not its end.
RECURSIVE split_loop_resume_at_match(_, _, _, _, _)
split_loop_resume_at_match(k, s, hs, last_end, ret) ==
    LET r == next_match(k, s)
    IN  IF is_some(r.ret)
        THEN LET begin == r.ret.val[1]
                 end == r.ret.val[2]
                 ret1 == IF is_some(last_end)
                         THEN Append(ret, range_to_self(k, hs, last_end.val, begin))
                         ELSE ret
             IN  split_loop_resume_at_match(k, r.s, hs, Some(begin), ret1)
        ELSE [last_end |-> last_end, ret |-> ret]

\* The while-let loop of split: one iteration per match; yields the views
\* pushed so far and the last match's end.
RECURSIVE split_loop(_, _, _, _, _)
split_loop(k, s, hs, last_end, ret) ==
    LET r == next_match(k, s)
    IN  IF is_some(r.ret)
        THEN LET begin == r.ret.val[1]
                 end == r.ret.val[2]
                 ret1 == IF is_some(last_end)
                         THEN Append(ret, range_to_self(k, hs, last_end.val, begin))
                         ELSE ret
             IN  split_loop(k, r.s, hs, Some(end), ret1)
        ELSE [last_end |-> last_end, ret |-> ret]

\* Mutant: an empty trailing gap is dropped.
split_skip_empty_tail(k, hay, pattern) ==
    LET s == into_searcher(k, pattern, hay)
        hs == searcher_haystack(k, s)
        l == split_loop(k, s, hs, Some(cursor_at_front(k, hs)), <<>>)
    IN  IF is_some(l.last_end) /\ l.last_end.val # cursor_at_back(k, hs)
        THEN Append(l.ret, range_to_self(k, hs, l.last_end.val, cursor_at_back(k, hs)))
        ELSE l.ret

\* Mutant: the leading gap is not emitted.
split_no_leading_gap(k, hay, pattern) ==
    LET s == into_searcher(k, pattern, hay)
        hs == searcher_haystack(k, s)
        l == split_loop(k, s, hs, None, <<>>)
    IN  IF is_some(l.last_end)
        THEN Append(l.ret, range_to_self(k, hs, l.last_end.val, cursor_at_back(k, hs)))
        ELSE l.ret

split(k, hay, pattern) ==
    LET s == into_searcher(k, pattern, hay)
        hs == searcher_haystack(k, s)
        l == split_loop(k, s, hs, Some(cursor_at_front(k, hs)), <<>>)
    IN  IF is_some(l.last_end)
        THEN Append(l.ret, range_to_self(k, hs, l.last_end.val, cursor_at_back(k, hs)))
        ELSE l.ret

\* -------------------------------------------------------------- v2: string

\* The v2 searcher keeps the haystack and an index; ranges are index pairs.
v2_str_into_searcher(pattern, hay) ==
    [haystack |-> hay, pos |-> 0, ascii |-> pattern]

\* Mutant: the range is built from the position after the increment.
RECURSIVE v2_str_next_match_no_decrement(_)
v2_str_next_match_no_decrement(s) ==
    LET g == slice_get(s.haystack, s.pos)
    IN  IF is_some(g)
        THEN LET s1 == [s EXCEPT !.pos = s.pos + 1]
             IN  IF g.val = s.ascii
                 THEN [s |-> s1, ret |-> Some(<<s1.pos, s1.pos + 1>>)]
                 ELSE v2_str_next_match_no_decrement(s1)
        ELSE [s |-> s, ret |-> None]

RECURSIVE v2_str_next_match(_)
v2_str_next_match(s) ==
    LET g == slice_get(s.haystack, s.pos)
    IN  IF is_some(g)
        THEN LET s1 == [s EXCEPT !.pos = s.pos + 1]
             IN  IF g.val = s.ascii
                 THEN [s |-> s1, ret |-> Some(<<s1.pos - 1, s1.pos>>)]
                 ELSE v2_str_next_match(s1)
        ELSE [s |-> s, ret |-> None]

\* Mutant: the comparison of next_match (copied) in next_reject.
RECURSIVE v2_str_next_reject_not_inverted(_)
v2_str_next_reject_not_inverted(s) ==
    LET g == slice_get(s.haystack, s.pos)
    IN  IF is_some(g)
        THEN LET s1 == [s EXCEPT !.pos = s.pos + 1]
             IN  IF g.val = s.ascii
                 THEN [s |-> s1, ret |-> Some(<<s1.pos - 1, s1.pos>>)]
                 ELSE v2_str_next_reject_not_inverted(s1)
        ELSE [s |-> s, ret |-> None]

RECURSIVE v2_str_next_reject(_)
v2_str_next_reject(s) ==
    LET g == slice_get(s.haystack, s.pos)
    IN  IF is_some(g)
        THEN LET s1 == [s EXCEPT !.pos = s.pos + 1]
             IN  IF g.val # s.ascii
                 THEN [s |-> s1, ret |-> Some(<<s1.pos - 1, s1.pos>>)]
                 ELSE v2_str_next_reject(s1)
        ELSE [s |-> s, ret |-> None]

v2_is_contained_in(pattern, hay) ==
    is_some(v2_str_next_match(v2_str_into_searcher(pattern, hay)).ret)

\* -------------------------------------------------------------- v3: string

\* What a read outside the haystack's buffer may do: yield some byte, or
\* fault (None).  The source does the read in an unsafe block, so nothing
\* checks the address.
OutOfBounds == {Some(b) : b \in Bytes} \cup {None}

\* *p in v3: the byte at an address inside the buffer, and oob for any other.
v3_read(p, oob) ==
    IF p \in base..(base + Len(haystack) - 1) THEN Some(Deref(p)) ELSE oob

\* The v3 searcher keeps the haystack value and the start and end pointers.
v3_str_into_searcher(pattern, hay) ==
    [haystack |-> hay, start |-> hay.ptr, end |-> hay.ptr + hay.len, ascii |-> pattern]

v3_str_haystack(s) == s.haystack

\* next_match compares *self.start after self.start was advanced, so the
\* byte compared is the one after p.  reads collects the addresses read;
\* fault tells that a read faulted, which ends the process inside the call.
RECURSIVE v3_str_next_match(_, _, _)
v3_str_next_match(s, oob, reads) ==
    IF s.start # s.end
    THEN LET p == s.start
             s1 == [s EXCEPT !.start = s.start + 1]
             b == v3_read(s1.start, oob)
             reads1 == reads \cup {s1.start}
         IN  IF b = None
             THEN [s |-> s1, ret |-> None, reads |-> reads1, fault |-> TRUE]
             ELSE IF b.val = s.ascii
             THEN [s |-> s1, ret |-> Some(<<p, s1.start>>), reads |-> reads1,
                   fault |-> FALSE]
             ELSE v3_str_next_match(s1, oob, reads1)
    ELSE [s |-> s, ret |-> None, reads |-> reads, fault |-> FALSE]

RECURSIVE v3_str_next_reject(_, _, _)
v3_str_next_reject(s, oob, reads) ==
    IF s.start # s.end
    THEN LET p == s.start
             s1 == [s EXCEPT !.start = s.start + 1]
             b == v3_read(s1.start, oob)
             reads1 == reads \cup {s1.start}
         IN  IF b = None
             THEN [s |-> s1, ret |-> None, reads |-> reads1, fault |-> TRUE]
             ELSE IF b.val # s.ascii
             THEN [s |-> s1, ret |-> Some(<<p, s1.start>>), reads |-> reads1,
                   fault |-> FALSE]
             ELSE v3_str_next_reject(s1, oob, reads1)
    ELSE [s |-> s, ret |-> None, reads |-> reads, fault |-> FALSE]

\* -------------------------------------------------------------- v4: string

v4_str_offset_from_start(start, pos) == pos[1] - start

v4_str_cursor_to_self(start, cursor) == [ptr |-> cursor[1], len |-> cursor[2] - cursor[1]]

v4_str_haystack_start(s) == s.front

RECURSIVE v4_str_next_match(_)
v4_str_next_match(s) ==
    IF s.start # s.end
    THEN LET p == s.start
             s1 == [s EXCEPT !.start = s.start + 1]
         IN  IF Deref(p) = s.ascii
             THEN [s |-> s1, ret |-> Some(<<p, s1.start>>)]
             ELSE v4_str_next_match(s1)
    ELSE [s |-> s, ret |-> None]

\* Mutant: the scan position is not advanced past a returned range.
RECURSIVE v4_str_next_reject_no_advance(_)
v4_str_next_reject_no_advance(s) ==
    IF s.start # s.end
    THEN LET p == s.start
             s1 == [s EXCEPT !.start = s.start + 1]
         IN  IF Deref(p) # s.ascii
             THEN [s |-> s, ret |-> Some(<<p, s1.start>>)]
             ELSE v4_str_next_reject_no_advance(s1)
    ELSE [s |-> s, ret |-> None]

RECURSIVE v4_str_next_reject(_)
v4_str_next_reject(s) ==
    IF s.start # s.end
    THEN LET p == s.start
             s1 == [s EXCEPT !.start = s.start + 1]
         IN  IF Deref(p) # s.ascii
             THEN [s |-> s1, ret |-> Some(<<p, s1.start>>)]
             ELSE v4_str_next_reject(s1)
    ELSE [s |-> s, ret |-> None]

v4_str_into_searcher(pattern, hay) ==
    [front |-> hay.ptr, start |-> hay.ptr, end |-> hay.ptr + hay.len, ascii |-> pattern]

\* --------------------------------------------------------------- v4: slice

\* Start is the searcher's front_offset: offset + 1 of the last yielded cursor.
v4_slice_offset_from_start(start, pos) == start - 1

v4_slice_cursor_to_self(start, cursor) == [ptr |-> cursor[1], len |-> cursor[2] - cursor[1]]

v4_slice_haystack_start(s) == s.front_offset

\* Mutant: front_offset is advanced only when an element matches.
RECURSIVE v4_slice_next_match_count_matches(_)
v4_slice_next_match_count_matches(s) ==
    IF s.start # s.end
    THEN LET p == s.start
             s1 == [s EXCEPT !.start = s.start + 1]
         IN  IF Deref(p) = s.ascii
             THEN [s |-> [s1 EXCEPT !.front_offset = s.front_offset + 1],
                   ret |-> Some(<<p, s1.start>>)]
             ELSE v4_slice_next_match_count_matches(s1)
    ELSE [s |-> s, ret |-> None]

RECURSIVE v4_slice_next_match(_)
v4_slice_next_match(s) ==
    IF s.start # s.end
    THEN LET p == s.start
             s1 == [s EXCEPT !.start = s.start + 1,
                             !.front_offset = s.front_offset + 1]
         IN  IF Deref(p) = s.ascii
             THEN [s |-> s1, ret |-> Some(<<p, s1.start>>)]
             ELSE v4_slice_next_match(s1)
    ELSE [s |-> s, ret |-> None]

RECURSIVE v4_slice_next_reject(_)
v4_slice_next_reject(s) ==
    IF s.start # s.end
    THEN LET p == s.start
             s1 == [s EXCEPT !.start = s.start + 1,
                             !.front_offset = s.front_offset + 1]
         IN  IF Deref(p) # s.ascii
             THEN [s |-> s1, ret |-> Some(<<p, s1.start>>)]
             ELSE v4_slice_next_reject(s1)
    ELSE [s |-> s, ret |-> None]

v4_slice_into_searcher(pattern, hay) ==
    [front_offset |-> 0, start |-> hay.ptr, end |-> hay.ptr + hay.len, ascii |-> pattern]

\* ------------------------------------------- v4: dispatch and api_consumer

v4_offset_from_start(k, start, pos) ==
    IF k = "str" THEN v4_str_offset_from_start(start, pos)
    ELSE v4_slice_offset_from_start(start, pos)

v4_cursor_to_self(k, start, cursor) ==
    IF k = "str" THEN v4_str_cursor_to_self(start, cursor)
    ELSE v4_slice_cursor_to_self(start, cursor)

v4_haystack_start(k, s) ==
    IF k = "str" THEN v4_str_haystack_start(s) ELSE v4_slice_haystack_start(s)

v4_next_match(k, s) ==
    IF k = "str" THEN v4_str_next_match(s) ELSE v4_slice_next_match(s)

v4_next_reject(k, s) ==
    IF k = "str" THEN v4_str_next_reject(s) ELSE v4_slice_next_reject(s)

v4_into_searcher(k, pattern, hay) ==
    IF k = "str" THEN v4_str_into_searcher(pattern, hay)
    ELSE v4_slice_into_searcher(pattern, hay)

v4_is_contained_in(k, pattern, hay) ==
    is_some(v4_next_match(k, v4_into_searcher(k, pattern, hay)).ret)

RECURSIVE v4_match_indices_loop(_, _, _)
v4_match_indices_loop(k, s, ret) ==
    LET r == v4_next_match(k, s)
    IN  IF is_some(r.ret)
        THEN LET match_ == r.ret.val
                 start == v4_haystack_start(k, r.s)
                 pos == v4_offset_from_start(k, start, match_)
                 slice == v4_cursor_to_self(k, start, match_)
             IN  v4_match_indices_loop(k, r.s, Append(ret, <<pos, slice>>))
        ELSE ret

v4_match_indices(k, hay, pattern) ==
    v4_match_indices_loop(k, v4_into_searcher(k, pattern, hay), <<>>)

\* ------------------------------------------------- the sketch's versions

Versions == {"v2", "v4", "v5"}

\* v2 and v3 have the string haystack only; v4 and v5 have both.
KindsOf(v) == IF v \in {"v2", "v3"} THEN {"str"} ELSE Kinds

ver_into_searcher(v, k, pattern, hay) ==
    IF v = "v2" THEN v2_str_into_searcher(pattern, hay)
    ELSE IF v = "v3" THEN v3_str_into_searcher(pattern, hay)
    ELSE IF v = "v4" THEN v4_into_searcher(k, pattern, hay)
    ELSE into_searcher(k, pattern, hay)

ver_next_match(v, k, s) ==
    IF v = "v2" THEN v2_str_next_match(s)
    ELSE IF v = "v4" THEN v4_next_match(k, s)
    ELSE next_match(k, s)

ver_next_reject(v, k, s) ==
    IF v = "v2" THEN v2_str_next_reject(s)
    ELSE IF v = "v4" THEN v4_next_reject(k, s)
    ELSE next_reject(k, s)

ver_is_contained_in(v, k, pattern, hay) ==
    IF v = "v2" THEN v2_is_contained_in(pattern, hay)
    ELSE IF v = "v4" THEN v4_is_contained_in(k, pattern, hay)
    ELSE is_contained_in(k, pattern, hay)

ver_match_indices(v, k, hay, pattern) ==
    IF v = "v4" THEN v4_match_indices(k, hay, pattern)
    ELSE match_indices(k, hay, pattern)

\* The searcher's scan position: v2's index, the later versions' start pointer.
ScanPos(v, s) == IF v = "v2" THEN s.pos ELSE s.start

\* ------------------------------------------------ writing through the views

\* for m in match_indices { m.1[0] = x }: indexing an empty view panics.
RECURSIVE write_first(_, _, _)
write_first(mem, entries, x) ==
    IF entries = <<>>
    THEN Ok(mem)
    ELSE LET m == Head(entries)[2]
         IN  IF 0 < m.len
             THEN write_first([mem EXCEPT ![m.ptr - base + 1] = x], Tail(entries), x)
             ELSE Panic

\* for byte in m { *byte = x }
fill_view(mem, m, x) ==
    [i \in 1..Len(mem) |-> IF (base + i - 1) \in Covered(m) THEN x ELSE mem[i]]

\* for m in split { for byte in m { *byte = x } }
RECURSIVE write_all(_, _, _)
write_all(mem, views, x) ==
    IF views = <<>>
    THEN mem
    ELSE write_all(fill_view(mem, Head(views), x), Tail(views), x)

\* ----------------------------------------------------------- state machine

\* A caller holds one haystack (a string or a mutable byte slice, somewhere
\* in memory) and one pattern value Ascii(ascii).  Every pattern method and
\* both consumers take the pattern by value, so the caller makes one such
\* call; after into_searcher it drives the searcher it got, and the views a
\* consumer returned for a mutable slice may be written through.  result
\* holds how the call ended: Ok(value returned) or Panic.  original keeps
\* the haystack's bytes as they were before any write, fill the byte written.
InitWith(vs) ==
    /\ version \in vs
    /\ kind \in KindsOf(version)
    /\ base \in 1..MaxBase
    /\ haystack \in Haystacks
    /\ original = haystack
    /\ ascii \in Bytes
    /\ call = "none"
    /\ result = None
    /\ searcher = NoSearcher
    /\ hist = <<>>
    /\ fill = None

Init == InitWith({"v5"})

InitAll == InitWith(Versions)

IntoSearcher ==
    /\ call = "none"
    /\ call' = "into_searcher"
    /\ searcher' = ver_into_searcher(version, kind, ascii, Hay)
    /\ UNCHANGED <<version, kind, base, haystack, original, ascii, result, hist, fill>>

\* hist records each call on the searcher: which, the scan position before
\* and after, and what it returned.
NextMatch ==
    /\ call = "into_searcher"
    /\ Len(hist) < MaxCalls
    /\ LET r == ver_next_match(version, kind, searcher)
       IN  /\ searcher' = r.s
           /\ hist' = Append(hist, [op |-> "next_match",
                                    from |-> ScanPos(version, searcher),
                                    to |-> ScanPos(version, r.s), ret |-> r.ret])
    /\ UNCHANGED <<version, kind, base, haystack, original, ascii, call, result, fill>>

NextReject ==
    /\ call = "into_searcher"
    /\ Len(hist) < MaxCalls
    /\ LET r == ver_next_reject(version, kind, searcher)
       IN  /\ searcher' = r.s
           /\ hist' = Append(hist, [op |-> "next_reject",
                                    from |-> ScanPos(version, searcher),
                                    to |-> ScanPos(version, r.s), ret |-> r.ret])
    /\ UNCHANGED <<version, kind, base, haystack, original, ascii, call, result, fill>>

\* Of the prefix and suffix queries and split, v5's are modelled.
IsPrefixOf ==
    /\ version = "v5"
    /\ call = "none"
    /\ call' = "is_prefix_of"
    /\ result' = Ok(is_prefix_of(kind, ascii, Hay))
    /\ UNCHANGED <<version, kind, base, haystack, original, ascii, searcher, hist, fill>>

\* The build decides whether the usize subtraction is overflow-checked.
IsSuffixOf ==
    /\ version = "v5"
    /\ call = "none"
    /\ call' = "is_suffix_of"
    /\ \E overflow_checks \in BOOLEAN :
           result' = is_suffix_of(kind, ascii, Hay, overflow_checks)
    /\ UNCHANGED <<version, kind, base, haystack, original, ascii, searcher, hist, fill>>

IsContainedIn ==
    /\ call = "none"
    /\ call' = "is_contained_in"
    /\ result' = Ok(ver_is_contained_in(version, kind, ascii, Hay))
    /\ UNCHANGED <<version, kind, base, haystack, original, ascii, searcher, hist, fill>>

\* v2 has no consumers.
MatchIndices ==
    /\ version \in {"v4", "v5"}
    /\ call = "none"
    /\ call' = "match_indices"
    /\ result' = Ok(ver_match_indices(version, kind, Hay, ascii))
    /\ UNCHANGED <<version, kind, base, haystack, original, ascii, searcher, hist, fill>>

Split ==
    /\ version = "v5"
    /\ call = "none"
    /\ call' = "split"
    /\ result' = Ok(split(kind, Hay, ascii))
    /\ UNCHANGED <<version, kind, base, haystack, original, ascii, searcher, hist, fill>>

\* The caller of match_indices on a mutable slice overwrites the first
\* element of every returned view (test_match_indices).
OverwriteMatches ==
    /\ call = "match_indices"
    /\ kind = "slice"
    /\ \E x \in Bytes :
           LET w == write_first(haystack, result.val, x)
           IN  /\ fill' = Some(x)
               /\ IF w.tag = "Ok"
                  THEN /\ haystack' = w.val
                       /\ call' = "match_indices_overwritten"
                  ELSE /\ haystack' = haystack
                       /\ call' = "match_indices_panicked"
    /\ UNCHANGED <<version, kind, base, original, ascii, result, searcher, hist>>

\* The caller of split on a mutable slice overwrites every byte of every
\* returned view (test_split).
OverwriteGaps ==
    /\ call = "split"
    /\ kind = "slice"
    /\ \E x \in Bytes :
           /\ fill' = Some(x)
           /\ haystack' = write_all(haystack, result.val, x)
    /\ call' = "split_overwritten"
    /\ UNCHANGED <<version, kind, base, original, ascii, result, searcher, hist>>

Next ==
    \/ IntoSearcher
    \/ NextMatch
    \/ NextReject
    \/ IsPrefixOf
    \/ IsSuffixOf
    \/ IsContainedIn
    \/ MatchIndices
    \/ Split
    \/ OverwriteMatches
    \/ OverwriteGaps

\* v5 alone.
Spec == Init /\ [][Next]_vars

\* v2, v4 and v5.
SpecAll == InitAll /\ [][Next]_vars

\* ---------------------------------------------------- state machine of v3

InitV3 == InitWith({"v3"})

\* One next_match call.  The build and the memory beyond the buffer decide
\* what a read outside it does; a fault ends the process, so no call follows.
V3NextMatch ==
    /\ version = "v3"
    /\ call = "into_searcher"
    /\ Len(hist) < MaxCalls
    /\ \E oob \in OutOfBounds :
           LET r == v3_str_next_match(searcher, oob, {})
           IN  /\ searcher' = r.s
               /\ hist' = Append(hist, [op |-> "next_match",
                                        from |-> ScanPos(version, searcher),
                                        to |-> ScanPos(version, r.s),
                                        ret |-> r.ret, reads |-> r.reads])
               /\ call' = IF r.fault THEN "fault" ELSE call
    /\ UNCHANGED <<version, kind, base, haystack, original, ascii, result, fill>>

V3NextReject ==
    /\ version = "v3"
    /\ call = "into_searcher"
    /\ Len(hist) < MaxCalls
    /\ \E oob \in OutOfBounds :
           LET r == v3_str_next_reject(searcher, oob, {})
           IN  /\ searcher' = r.s
               /\ hist' = Append(hist, [op |-> "next_reject",
                                        from |-> ScanPos(version, searcher),
                                        to |-> ScanPos(version, r.s),
                                        ret |-> r.ret, reads |-> r.reads])
               /\ call' = IF r.fault THEN "fault" ELSE call
    /\ UNCHANGED <<version, kind, base, haystack, original, ascii, result, fill>>

NextV3 ==
    \/ IntoSearcher
    \/ V3NextMatch
    \/ V3NextReject

\* v3 alone.
SpecV3 == InitV3 /\ [][NextV3]_vars

\* ------------------------------------------------------------------ claims

\* The value the caller's call returned.
Ret == result.val

\* Offsets (zero-based) of the haystack elements equal to the target.
MatchPositions == {i \in 0..(Len(haystack) - 1) : haystack[i + 1] = ascii}

\* The one-element slice of the haystack at a zero-based offset.
SpanAt(offset) == [ptr |-> base + offset, len |-> 1]

\* C1: match_indices returns its entries in strictly increasing offset order,
\* and the view of each entry is exactly the one-element span of the haystack
\* at that entry's offset.
C1_MatchIndicesOrdered ==
    call = "match_indices" =>
        /\ \A i \in 1..(Len(Ret) - 1) : Ret[i][1] < Ret[i + 1][1]
        /\ \A i \in 1..Len(Ret) :
               /\ Ret[i][1] \in 0..(Len(haystack) - 1)
               /\ Ret[i][2] = SpanAt(Ret[i][1])
               /\ ViewBytes(Ret[i][2]) = <<haystack[Ret[i][1] + 1]>>

C1_Witness ==
    /\ call = "match_indices"
    /\ Len(Ret) >= 2
    /\ Ret[1][1] > 0

\* C2: match_indices(H, Ascii(b)) returns exactly one entry for each position
\* holding b and no entry for any other position.
C2_MatchIndicesExact ==
    call = "match_indices" =>
        /\ {Ret[i][1] : i \in 1..Len(Ret)} = MatchPositions
        /\ Len(Ret) = Cardinality(MatchPositions)

C2_Witness ==
    /\ call = "match_indices"
    /\ Len(Ret) >= 2
    /\ Len(Ret) < Len(haystack)

\* view_0, match_0, view_1, match_1, ... concatenated, as bytes.
RECURSIVE Interleave(_, _)
Interleave(views, matches) ==
    IF views = <<>> /\ matches = <<>>
    THEN <<>>
    ELSE (IF views = <<>> THEN <<>> ELSE ViewBytes(Head(views)))
         \o (IF matches = <<>> THEN <<>> ELSE ViewBytes(Head(matches)[2]))
         \o Interleave(IF views = <<>> THEN <<>> ELSE Tail(views),
                       IF matches = <<>> THEN <<>> ELSE Tail(matches))

\* C3: round trip: the views of split(H, P) interleaved with the matched
\* elements of match_indices(H, P) reconstruct H exactly.
C3_RoundTrip ==
    call = "split" =>
        Interleave(Ret, match_indices(kind, Hay, ascii)) = haystack

C3_Witness ==
    /\ call = "split"
    /\ Len(Ret) >= 2
    /\ \E i \in 1..Len(Ret) : Ret[i].len > 0

\* C4: split(H, P) returns exactly one view more than match_indices(H, P)
\* returns entries.
C4_SplitCount ==
    call = "split" =>
        Len(Ret) = Len(match_indices(kind, Hay, ascii)) + 1

C4_Witness ==
    /\ call = "split"
    /\ Len(Ret) = 3
    /\ \E i \in 1..Len(Ret) : Ret[i].len = 0

\* The views a consumer returned.
ResultViews ==
    IF call = "match_indices"
    THEN [i \in 1..Len(Ret) |-> Ret[i][2]]
    ELSE Ret

\* C5: for a mutably borrowed haystack, the views returned by match_indices
\* are pairwise disjoint, and so are the views returned by split.
C5_MutableViewsDisjoint ==
    (kind = "slice" /\ call \in {"match_indices", "split"}) =>
        \A i, j \in 1..Len(ResultViews) :
            i # j => Covered(ResultViews[i]) \cap Covered(ResultViews[j]) = {}

C5_Witness ==
    /\ kind = "slice"
    /\ call = "split"
    /\ \E i, j \in 1..Len(Ret) : i # j /\ Ret[i].len > 0 /\ Ret[j].len > 0

\* C6: once next_match returns none, every later call to next_match on that
\* searcher returns none; likewise for next_reject.
C6_Terminal ==
    \A i, j \in 1..Len(hist) :
        (i < j /\ hist[i].op = hist[j].op /\ hist[i].ret = None) => hist[j].ret = None

C6_Witness ==
    \E i, j \in 1..Len(hist) :
        /\ i < j
        /\ hist[i].op = "next_match" /\ hist[j].op = "next_match"
        /\ hist[i].ret = None
        /\ \E k \in 1..Len(hist) : k < i /\ is_some(hist[k].ret)

\* C7: within one searcher the scan position only moves forward, and each
\* range returned begins at or after the end of every range returned earlier.
C7_LeftToRight ==
    /\ \A i \in 1..Len(hist) : hist[i].from <= hist[i].to
    /\ \A i \in 1..(Len(hist) - 1) : hist[i + 1].from = hist[i].to
    /\ Len(hist) > 0 => searcher.start = hist[Len(hist)].to
    /\ \A i, j \in 1..Len(hist) :
           (i < j /\ is_some(hist[i].ret) /\ is_some(hist[j].ret)) =>
               /\ hist[i].ret.val[2] <= hist[j].ret.val[1]
               /\ hist[i].ret.val[1] < hist[j].ret.val[1]

C7_Witness ==
    \E i, j \in 1..Len(hist) :
        /\ i < j
        /\ is_some(hist[i].ret) /\ is_some(hist[j].ret)
        /\ hist[i].op = hist[j].op

\* The haystack element at an address.
ElemAt(p) == haystack[p - base + 1]

\* C8 as stated: every range next_reject returns is a maximal run of
\* non-target elements: no element in it equals the target, and the element
\* before its begin, if any, and the element at its end, if any, equal the
\* target.
C8_RejectMaximal ==
    \A i \in 1..Len(hist) :
        (hist[i].op = "next_reject" /\ is_some(hist[i].ret)) =>
            LET b == hist[i].ret.val[1]
                e == hist[i].ret.val[2]
            IN  /\ b < e
                /\ \A p \in b..(e - 1) : ElemAt(p) # ascii
                /\ (b > base => ElemAt(b - 1) = ascii)
                /\ (e < base + Len(haystack) => ElemAt(e) = ascii)

\* C8 amended: every range next_reject returns is the one-element span
\* [p, p+1) at the first position p at or after the scan position whose
\* element differs from the target; the scan position is left at p+1, and
\* next_reject returns none only when no such position remains.
C8_RejectFirstNonMatching ==
    \A i \in 1..Len(hist) :
        hist[i].op = "next_reject" =>
            IF is_some(hist[i].ret)
            THEN LET b == hist[i].ret.val[1]
                     e == hist[i].ret.val[2]
                 IN  /\ e = b + 1
                     /\ b \in hist[i].from..(base + Len(haystack) - 1)
                     /\ ElemAt(b) # ascii
                     /\ \A p \in hist[i].from..(b - 1) : ElemAt(p) = ascii
                     /\ hist[i].to = e
            ELSE /\ \A p \in hist[i].from..(base + Len(haystack) - 1) : ElemAt(p) = ascii
                 /\ hist[i].to = base + Len(haystack)

\* A next_reject range whose end holds another non-target element.
C8_Witness ==
    \E i \in 1..Len(hist) :
        /\ hist[i].op = "next_reject"
        /\ is_some(hist[i].ret)
        /\ hist[i].ret.val[1] > hist[i].from
        /\ hist[i].ret.val[2] < base + Len(haystack)
        /\ ElemAt(hist[i].ret.val[2]) # ascii

\* C9: for an empty haystack next_match and next_reject return none from the
\* first call on, match_indices returns no entries, and split returns exactly
\* one view, which is empty.
C9_EmptyHaystack ==
    Len(haystack) = 0 =>
        /\ \A i \in 1..Len(hist) : hist[i].ret = None
        /\ call = "match_indices" => Ret = <<>>
        /\ call = "split" => (Len(Ret) = 1 /\ Ret[1].len = 0)

C9_Witness ==
    /\ Len(haystack) = 0
    /\ call = "split"
    /\ Len(Ret) = 1

\* C10: is_suffix_of(haystack) is true iff the haystack is non-empty and its
\* last element equals the target; for an empty haystack it returns false
\* rather than failing on the computation of len - 1.
C10_IsSuffixOf ==
    call = "is_suffix_of" =>
        result = Ok(IF Len(haystack) = 0 THEN FALSE
                    ELSE haystack[Len(haystack)] = ascii)

\* C11: is_prefix_of(haystack) is true iff the haystack is non-empty and its
\* first element equals the target, and it neither creates nor advances a
\* searcher.
C11_IsPrefixOf ==
    call = "is_prefix_of" =>
        /\ result = Ok(IF Len(haystack) = 0 THEN FALSE ELSE haystack[1] = ascii)
        /\ searcher = NoSearcher
        /\ hist = <<>>

C11_Witness ==
    /\ call = "is_prefix_of"
    /\ Len(haystack) >= 2
    /\ haystack[1] = ascii
    /\ haystack[Len(haystack)] # ascii
    /\ Ret = TRUE

\* C12: is_contained_in(haystack) is true iff the first next_match call on a
\* freshly bound searcher succeeds, which for the single-byte pattern is iff
\* some element of the haystack equals the target.
C12_IsContainedIn ==
    /\ call = "is_contained_in" => result = Ok(MatchPositions # {})
    /\ (call = "into_searcher" /\ hist # <<>> /\ hist[1].op = "next_match") =>
           is_some(hist[1].ret) = ver_is_contained_in(version, kind, ascii, Hay)

C12_Witness ==
    /\ call = "is_contained_in"
    /\ Ret = TRUE
    /\ Len(haystack) >= 2
    /\ haystack[1] # ascii

\* C13: running match_indices on a mutable buffer and overwriting the single
\* element of every returned view with a byte x leaves the buffer equal to
\* the original with every occurrence of the target replaced by x and every
\* other position unchanged.
C13_OverwriteMatches ==
    /\ call # "match_indices_panicked"
    /\ call = "match_indices_overwritten" =>
           haystack = [i \in 1..Len(original) |->
                          IF original[i] = ascii THEN fill.val ELSE original[i]]

C13_Witness ==
    /\ call = "match_indices_overwritten"
    /\ fill.val # ascii
    /\ \E i, j \in 1..Len(original) : original[i] = ascii /\ original[j] # ascii

\* C14: running split on a mutable buffer and overwriting every byte of
\* every returned gap view with a byte x leaves every position that held the
\* target unchanged and every other position equal to x.
C14_OverwriteGaps ==
    call = "split_overwritten" =>
        haystack = [i \in 1..Len(original) |->
                       IF original[i] = ascii THEN original[i] ELSE fill.val]

C14_Witness ==
    /\ call = "split_overwritten"
    /\ fill.val # ascii
    /\ \E i, j \in 1..Len(original) :
           original[i] = ascii /\ original[j] # ascii /\ original[j] # fill.val

\* The offsets of the matches, in increasing order.
MatchSeq ==
    SelectSeq([i \in 1..Len(haystack) |-> i - 1], LAMBDA o : haystack[o + 1] = ascii)

\* The j-th gap: from the end of match j-1 (or the front) to the begin of
\* match j (or the back).
Gap(j) ==
    LET from == IF j = 1 THEN 0 ELSE MatchSeq[j - 1] + 1
        to == IF j = Len(MatchSeq) + 1 THEN Len(haystack) ELSE MatchSeq[j]
    IN  [ptr |-> base + from, len |-> to - from]

\* C15: split emits every gap, the empty ones included: the leading gap, the
\* gap between each two consecutive matches and the trailing gap, so that an
\* empty view stands between adjacent matches and before or after a match at
\* a boundary; with no match the single view is the entire haystack.
C15_SplitGaps ==
    call = "split" =>
        /\ Ret = [j \in 1..(Len(MatchSeq) + 1) |-> Gap(j)]
        /\ MatchSeq = <<>> => Ret = <<Hay>>

C15_Witness ==
    /\ call = "split"
    /\ Len(Ret) >= 4
    /\ Ret[1].len = 0
    /\ Ret[Len(Ret)].len = 0
    /\ \E j \in 2..(Len(Ret) - 1) : Ret[j].len = 0

\* A scan position or cursor as a zero-based index into the haystack.
Idx(x) == IF version = "v2" THEN x ELSE x - base

\* The zero-based positions at or after s that hold the target.
MatchesFrom(s) == {i \in s..(Len(haystack) - 1) : haystack[i + 1] = ascii}

\* The least element of a non-empty set of numbers.
Least(S) == CHOOSE i \in S : \A j \in S : i <= j

\* C16: in v2, v4 and v5, next_match called with scan position s returns the
\* one-element range [i, i+1) for the smallest position i >= s holding the
\* target and leaves the scan position at i+1; with no such position it
\* returns none and leaves the scan position at the haystack's end.
C16_NextMatchFirst ==
    \A n \in 1..Len(hist) :
        hist[n].op = "next_match" =>
            LET s == Idx(hist[n].from)
            IN  IF MatchesFrom(s) # {}
                THEN /\ is_some(hist[n].ret)
                     /\ Idx(hist[n].ret.val[1]) = Least(MatchesFrom(s))
                     /\ Idx(hist[n].ret.val[2]) = Least(MatchesFrom(s)) + 1
                     /\ Idx(hist[n].to) = Least(MatchesFrom(s)) + 1
                ELSE /\ hist[n].ret = None
                     /\ Idx(hist[n].to) = Len(haystack)

C16_Witness ==
    /\ version = "v2"
    /\ \E n \in 1..Len(hist) :
           /\ hist[n].op = "next_match"
           /\ hist[n].from > 0
           /\ is_some(hist[n].ret)
           /\ hist[n].ret.val[1] > hist[n].from

\* The offsets of the elements that differ from the target, in increasing order.
RejectSeq ==
    SelectSeq([i \in 1..Len(haystack) |-> i - 1], LAMBDA o : haystack[o + 1] # ascii)

\* The searcher was driven by one kind of call alone, until it returned none.
PurePass(op) ==
    /\ hist # <<>>
    /\ \A n \in 1..Len(hist) : hist[n].op = op
    /\ \E n \in 1..Len(hist) : hist[n].ret = None

\* The ranges the calls returned, in order, as index pairs.
Yielded ==
    LET some == SelectSeq(hist, LAMBDA h : is_some(h.ret))
    IN  [n \in 1..Len(some) |-> <<Idx(some[n].ret.val[1]), Idx(some[n].ret.val[2])>>]

\* C17: driven alone to exhaustion on a fresh searcher, next_reject returns
\* exactly the one-element ranges [i, i+1) of the positions i whose element
\* differs from the target, in increasing order, and next_match exactly those
\* of the positions holding the target: the two passes' ranges are disjoint
\* and together cover every position once.
C17_RejectPass ==
    /\ PurePass("next_reject") =>
           Yielded = [n \in 1..Len(RejectSeq) |-> <<RejectSeq[n], RejectSeq[n] + 1>>]
    /\ PurePass("next_match") =>
           Yielded = [n \in 1..Len(MatchSeq) |-> <<MatchSeq[n], MatchSeq[n] + 1>>]

C17_Witness ==
    /\ version = "v4"
    /\ PurePass("next_reject")
    /\ Len(Yielded) >= 2
    /\ Len(Yielded) < Len(haystack)
    /\ haystack[1] = ascii

\* C18: on a v5 searcher, after any calls, front <= scan position <= back,
\* the stored bounds are those captured by into_searcher, and every range
\* (begin, end) returned satisfies front <= begin < end <= back.
C18_CursorBounds ==
    call = "into_searcher" =>
        LET front == cursor_at_front(kind, searcher_haystack(kind, searcher))
            back == cursor_at_back(kind, searcher_haystack(kind, searcher))
        IN  /\ searcher_haystack(kind, searcher) = <<base, base + Len(haystack)>>
            /\ front <= searcher.start
            /\ searcher.start <= back
            /\ \A n \in 1..Len(hist) :
                   is_some(hist[n].ret) =>
                       /\ front <= hist[n].ret.val[1]
                       /\ hist[n].ret.val[1] < hist[n].ret.val[2]
                       /\ hist[n].ret.val[2] <= back

C18_Witness ==
    /\ call = "into_searcher"
    /\ searcher.start = base + Len(haystack)
    /\ \E n \in 1..Len(hist) :
           is_some(hist[n].ret) /\ hist[n].ret.val[2] = base + Len(haystack)
    /\ \E n \in 1..Len(hist) : hist[n].ret = None

\* C19: scanning terminates without backtracking: a call that finds the scan
\* position before the end advances it by at least one and never past the
\* end, a call that finds it at the end returns none, so that among any
\* n + 1 calls on a haystack of n elements one returns none; and the
\* elements the calls examine, those from the scan position a call finds to
\* the one it leaves, are examined once over the searcher's lifetime.
C19_Terminates ==
    /\ \A n \in 1..Len(hist) :
           /\ Idx(hist[n].to) <= Len(haystack)
           /\ IF Idx(hist[n].from) < Len(haystack)
              THEN hist[n].from < hist[n].to
              ELSE hist[n].ret = None /\ hist[n].to = hist[n].from
    /\ Len(hist) > Len(haystack) => \E n \in 1..Len(hist) : hist[n].ret = None
    /\ \A m, n \in 1..Len(hist) :
           m < n => (hist[m].from..(hist[m].to - 1)) \cap (hist[n].from..(hist[n].to - 1)) = {}

C19_Witness ==
    /\ Len(haystack) >= 3
    /\ Len(hist) = Len(haystack) + 1
    /\ hist[Len(hist)].ret = None
    /\ \A n \in 1..(Len(hist) - 1) : is_some(hist[n].ret)
    /\ \E n \in 1..Len(hist) : hist[n].op = "next_reject"
    /\ \E n \in 1..Len(hist) : hist[n].op = "next_match"

\* C20: in v4, for the mutable byte-slice haystack, immediately after
\* next_match or next_reject yields a cursor c,
\* offset_from_start(searcher.haystack_start(), c) is the zero-based index of
\* c's begin position; so the offsets match_indices returns are the matches'.
C20_V4OffsetRecovery ==
    (version = "v4" /\ kind = "slice") =>
        /\ (hist # <<>> /\ is_some(hist[Len(hist)].ret)) =>
               v4_offset_from_start(kind, v4_haystack_start(kind, searcher),
                                    hist[Len(hist)].ret.val)
                   = hist[Len(hist)].ret.val[1] - base
        /\ call = "match_indices" =>
               [n \in 1..Len(Ret) |-> Ret[n][1]] = MatchSeq

C20_Witness ==
    /\ version = "v4"
    /\ kind = "slice"
    /\ Len(hist) >= 2
    /\ is_some(hist[Len(hist)].ret)
    /\ hist[Len(hist)].op = "next_reject"
    /\ hist[1].op = "next_match"
    /\ hist[Len(hist)].ret.val[1] - base >= 2
    /\ hist[Len(hist)].ret.val[1] > hist[Len(hist)].from

\* C21: in v3's string searcher, every range (p, q) next_match returns has
\* q = p + 1 and the haystack element at p equal to the target, and every
\* range next_reject returns has the element at p different from the target.
C21_V3Classified ==
    version = "v3" =>
        \A i \in 1..Len(hist) :
            is_some(hist[i].ret) =>
                LET p == hist[i].ret.val[1]
                    q == hist[i].ret.val[2]
                IN  /\ q = p + 1
                    /\ hist[i].op = "next_match" => ElemAt(p) = ascii
                    /\ hist[i].op = "next_reject" => ElemAt(p) # ascii

\* C22: in v3's string searcher, next_match and next_reject read haystack
\* elements only at positions inside [front, end): no call reads the element
\* at the end cursor or beyond.
C22_V3ReadsInWindow ==
    (version = "v3" /\ searcher # NoSearcher) =>
        \A i \in 1..Len(hist) :
            \A a \in hist[i].reads :
                searcher.haystack.ptr <= a /\ a < searcher.end

\* The addresses call i of hist passed over without returning them: those
\* from its scan position up to the range it returned or, when it returned
\* none, up to the end of the haystack.
SkippedBy(i) ==
    IF is_some(hist[i].ret)
    THEN hist[i].from..(hist[i].ret.val[1] - 1)
    ELSE hist[i].from..(base + Len(haystack) - 1)

\* C23: when next_match and next_reject calls are interleaved in any order
\* on one v5 searcher, every returned range is one element long and
\* correctly classified (its element equals the target for next_match and
\* differs from it for next_reject), the returned ranges are strictly
\* increasing and pairwise disjoint, and no element a call skipped over is
\* returned by a later call of either kind.
C23_Interleaved ==
    version = "v5" =>
        /\ \A i \in 1..Len(hist) :
               is_some(hist[i].ret) =>
                   LET p == hist[i].ret.val[1]
                       q == hist[i].ret.val[2]
                   IN  /\ q = p + 1
                       /\ p \in base..(base + Len(haystack) - 1)
                       /\ (hist[i].op = "next_match") = (ElemAt(p) = ascii)
        /\ \A i, j \in 1..Len(hist) :
               (i < j /\ is_some(hist[j].ret)) =>
                   /\ hist[j].ret.val[1] \notin SkippedBy(i)
                   /\ is_some(hist[i].ret) =>
                          /\ hist[i].ret.val[1] < hist[j].ret.val[1]
                          /\ hist[i].ret.val[2] <= hist[j].ret.val[1]

\* Three calls alternating between the two kinds each return a range, and
\* one of them skipped over an element.
C23_Witness ==
    /\ version = "v5"
    /\ \E i, j, k \in 1..Len(hist) :
           /\ i < j /\ j < k
           /\ hist[i].op # hist[j].op /\ hist[j].op # hist[k].op
           /\ is_some(hist[i].ret) /\ is_some(hist[j].ret) /\ is_some(hist[k].ret)
           /\ SkippedBy(j) # {}

\* The views of split's result that cover an address.
ViewsCovering(a) == {i \in 1..Len(Ret) : a \in Covered(Ret[i])}

\* C24: no view returned by split(H, Ascii(b)) contains the target byte b,
\* and every position of H whose element differs from b is covered by
\* exactly one returned view.
C24_SplitViews ==
    call = "split" =>
        /\ \A i \in 1..Len(Ret) :
               /\ Covered(Ret[i]) \subseteq base..(base + Len(haystack) - 1)
               /\ \A a \in Covered(Ret[i]) : ElemAt(a) # ascii
        /\ \A pos \in 0..(Len(haystack) - 1) :
               haystack[pos + 1] # ascii =>
                   Cardinality(ViewsCovering(base + pos)) = 1

\* split returned at least two views holding elements, around a match.
C24_Witness ==
    /\ call = "split"
    /\ MatchPositions # {}
    /\ \E i, j \in 1..Len(Ret) : i < j /\ Ret[i].len > 0 /\ Ret[j].len > 1

====
